---- MODULE Spec2Model ----
(***************************************************************************)
(* Model of andskur/argon2-hashing (src/argon2.go): GenerateFromPassword,  *)
(* CompareHashAndPassword, decodeHash and the text conversions they rely   *)
(* on (strings.Split, strconv.Atoi, fmt %d, base64.RawStdEncoding).         *)
(*                                                                         *)
(* Text is a sequence of one-character strings, bytes are naturals in      *)
(* 0..255.  A Go int is 64 bits wide and a uint32 32 bits; both exceed the *)
(* integers TLC computes with, so an int is kept as four 16-bit limbs      *)
(* (two's complement, least significant first) and a uint32 as two.        *)
(*                                                                         *)
(* A local value that a definition uses several times is bound by a        *)
(* quantifier over a one-element set ({e : x \in {v}}), which makes TLC    *)
(* compute it once.                                                        *)
(***************************************************************************)
EXTENDS Integers, Sequences, FiniteSets, TLC

\* ------------------------------------------------------------------------
\* Bounds of the model
\* ------------------------------------------------------------------------

\* number of distinct outcomes of a successful crypto/rand read
NumSeeds == 2

\* the number of goroutines that call into the package at the same time
NumGoroutines == 2

\* ------------------------------------------------------------------------
\* Numbers
\* ------------------------------------------------------------------------

Limb == 2^16

Byte == 2^8

\* uint32(n) for a natural n below 2^31
U32(n) == <<n % Limb, n \div Limb>>

U32Zero == <<0, 0>>

\* a < b on uint32
U32Less(a, b) == a[2] < b[2] \/ (a[2] = b[2] /\ a[1] < b[1])

\* int64 zero
I64Zero == <<0, 0, 0, 0>>

\* the int64 holding the same number as uint32 u (zero extension)
I64OfU32(u) == <<u[1], u[2], 0, 0>>

\* Go conversion uint32(v) of an int v: the low 32 bits
ToUint32(v) == <<v[1], v[2]>>

\* Go conversion uint8(v) of an int v: the low 8 bits
ToUint8(v) == v[1] % Byte

\* v*10 + d on 64 bits, as [limbs, carry]; carry is what does not fit
MulAdd10(v, d) ==
    LET t1 == v[1] * 10 + d
        t2 == v[2] * 10 + t1 \div Limb
        t3 == v[3] * 10 + t2 \div Limb
        t4 == v[4] * 10 + t3 \div Limb
    IN  [limbs |-> <<t1 % Limb, t2 % Limb, t3 % Limb, t4 % Limb>>,
         carry |-> t4 \div Limb]

\* two's complement negation on 64 bits: every bit inverted, plus one
Negate(v) ==
    LET t1 == (Limb - 1 - v[1]) + 1
        t2 == (Limb - 1 - v[2]) + t1 \div Limb
        t3 == (Limb - 1 - v[3]) + t2 \div Limb
        t4 == (Limb - 1 - v[4]) + t3 \div Limb
    IN  <<t1 % Limb, t2 % Limb, t3 % Limb, t4 % Limb>>

\* ------------------------------------------------------------------------
\* strconv.Atoi
\* ------------------------------------------------------------------------

DigitChars == <<"0", "1", "2", "3", "4", "5", "6", "7", "8", "9">>

\* the value of each decimal digit
DigitValues ==
    [c \in {DigitChars[i] : i \in 1..10} |->
        (CHOOSE i \in 1..10 : DigitChars[i] = c) - 1]

IsDigit(c) == c \in DOMAIN DigitValues

DigitVal(c) == DigitValues[c]

\* magnitude of a digit string: [limbs, over]; over when it exceeds 64
\* bits. (The step's result r is bound by a set so that it is computed
\* once for the whole remainder of the string.)
RECURSIVE ParseMagnitude(_, _, _, _)
ParseMagnitude(s, i, limbs, over) ==
    IF i > Len(s) THEN [limbs |-> limbs, over |-> over]
    ELSE CHOOSE m \in {ParseMagnitude(s, i + 1, r.limbs, r.carry # 0 \/ over) :
                         r \in {MulAdd10(limbs, DigitVal(s[i]))}} : TRUE

\* strconv.Atoi(s): [err, val]. An optional sign, then one or more decimal
\* digits; a value outside -2^63 .. 2^63-1 is a range error.
Atoi(s) ==
    LET signed == Len(s) > 0 /\ (s[1] = "-" \/ s[1] = "+")
        neg    == Len(s) > 0 /\ s[1] = "-"
        digits == IF signed THEN SubSeq(s, 2, Len(s)) ELSE s
        m      == ParseMagnitude(digits, 1, I64Zero, FALSE)
        isMin  == m.limbs = <<0, 0, 0, 32768>>
        range  == m.over \/ (m.limbs[4] >= 32768 /\ ~(neg /\ isMin))
    IN  IF Len(digits) < 1 \/ \E i \in 1..Len(digits) : ~IsDigit(digits[i])
        THEN [err |-> TRUE, val |-> I64Zero]
        ELSE IF range
        THEN [err |-> TRUE, val |-> I64Zero]
        ELSE [err |-> FALSE, val |-> IF neg THEN Negate(m.limbs) ELSE m.limbs]

\* ------------------------------------------------------------------------
\* fmt.Sprintf("%d", ...) of an unsigned value
\* ------------------------------------------------------------------------

\* the decimal digits of u, most significant first: the last digit is
\* u modulo 10, the digits before it are those of u divided by 10
RECURSIVE FormatU32(_)
FormatU32(u) ==
    CHOOSE text \in
        {IF t \div 10 = 0 /\ u[2] \div 10 = 0
         THEN <<DigitChars[(t % 10) + 1]>>
         ELSE FormatU32(<<t \div 10, u[2] \div 10>>)
              \o <<DigitChars[(t % 10) + 1]>> :
            t \in {(u[2] % 10) * Limb + u[1]}} : TRUE

\* fmt %d of a small natural (argon2.Version, Params.Threads)
FormatNat(n) == FormatU32(U32(n))

\* ------------------------------------------------------------------------
\* base64.RawStdEncoding
\* ------------------------------------------------------------------------

B64Chars ==
    << "A", "B", "C", "D", "E", "F", "G", "H", "I", "J", "K", "L", "M",
       "N", "O", "P", "Q", "R", "S", "T", "U", "V", "W", "X", "Y", "Z",
       "a", "b", "c", "d", "e", "f", "g", "h", "i", "j", "k", "l", "m",
       "n", "o", "p", "q", "r", "s", "t", "u", "v", "w", "x", "y", "z",
       "0", "1", "2", "3", "4", "5", "6", "7", "8", "9", "+", "/" >>

\* the six bits each character of the alphabet stands for
B64Values ==
    [c \in {B64Chars[i] : i \in 1..64} |->
        (CHOOSE i \in 1..64 : B64Chars[i] = c) - 1]

IsB64(c) == c \in DOMAIN B64Values

B64Val(c) == B64Values[c]

B64Char(v) == B64Chars[v + 1]

\* the 16 bits of b that start at byte q (zeros past the end)
Window16(b, q) ==
    b[q] * Byte + (IF q + 1 <= Len(b) THEN b[q + 1] ELSE 0)

\* base64.StdEncoding.EncodeToString: the same characters, then "=" up to
\* a multiple of four
EncodeToStringPadded(b) ==
    [k \in 1..(4 * ((Len(b) + 2) \div 3)) |->
        IF k > (Len(b) * 8 + 5) \div 6 THEN "="
        ELSE LET bit == 6 * (k - 1)
             IN  B64Char((Window16(b, bit \div 8 + 1)
                            \div 2^(10 - (bit % 8))) % 64)]

\* base64.RawStdEncoding.EncodeToString: the bits of b, most significant
\* first, cut into groups of six (the last group filled with zeros), one
\* character per group; three bytes make four characters and a remainder
\* of one or two bytes makes two or three, with no padding
EncodeToString(b) ==
    [k \in 1..((Len(b) * 8 + 5) \div 6) |->
        LET bit == 6 * (k - 1)
        IN  B64Char((Window16(b, bit \div 8 + 1) \div 2^(10 - (bit % 8))) % 64)]

\* the decoder skips carriage returns and line feeds
IsNewline(c) == c = "\n" \/ c = "\r"

DropNewlines(s) == SelectSeq(s, LAMBDA c : ~IsNewline(c))

\* the 12 bits of the characters q and q+1 of s (zeros past the end)
Window12(s, q) ==
    B64Val(s[q]) * 64 + (IF q + 1 <= Len(s) THEN B64Val(s[q + 1]) ELSE 0)

\* bytes of a newline-free string of alphabet characters whose length is
\* not 1 modulo 4: the six bits of each character, cut into groups of
\* eight; the bits left over after the last whole byte are dropped
DecodeQuanta(s) ==
    [k \in 1..((Len(s) * 6) \div 8) |->
        LET bit == 8 * (k - 1)
        IN  (Window12(s, bit \div 6 + 1) \div 2^(4 - (bit % 6))) % Byte]

\* base64.RawStdEncoding.DecodeString(s): [err, bytes]. Not strict: any
\* character outside the alphabet other than a newline (the padding
\* character '=' included) and a final group of one character are errors.
DecodeString(s) ==
    LET t == DropNewlines(s)
    IN  IF (\E i \in 1..Len(t) : ~IsB64(t[i])) \/ Len(t) % 4 = 1
        THEN [err |-> TRUE, bytes |-> <<>>]
        ELSE [err |-> FALSE, bytes |-> DecodeQuanta(t)]

\* ------------------------------------------------------------------------
\* strings.Split(s, "$") and the "$"-separated layout of fmt.Sprintf
\* ------------------------------------------------------------------------

Sep == "$"

\* the fields of s from position start on, i being the position examined
RECURSIVE SplitFrom(_, _, _)
SplitFrom(s, start, i) ==
    IF i > Len(s) THEN <<SubSeq(s, start, Len(s))>>
    ELSE IF s[i] = Sep
    THEN <<SubSeq(s, start, i - 1)>> \o SplitFrom(s, i + 1, i + 1)
    ELSE SplitFrom(s, start, i + 1)

\* strings.Split(s, "$"): the fields between separators, one more than
\* there are separators
Split(s) == SplitFrom(s, 1, 1)

\* the fields written one after the other with "$" between them
RECURSIVE Join(_)
Join(fields) ==
    IF Len(fields) = 0 THEN <<>>
    ELSE IF Len(fields) = 1 THEN fields[1]
    ELSE fields[1] \o <<Sep>> \o Join(Tail(fields))

\* ------------------------------------------------------------------------
\* Params, its floors and the package's error values
\* ------------------------------------------------------------------------

minMemoryValue == 32 * 1024

minIteration == 1

minThreads == 1

minKeyLength == 16

minSaltLength == 8

\* a Params value; Memory and Iterations are uint32 limbs, Threads a uint8,
\* the two lengths are naturals (they index the byte slices of the model)
MkParams(m, t, th, sl, kl) ==
    [Memory |-> m, Iterations |-> t, Threads |-> th,
     SaltLength |-> sl, KeyLength |-> kl]

DefaultParams == MkParams(U32(64 * 1024), U32(3), 2, 16, 32)

NoError == "nil"

ErrInvalidHash == "argon2: the encoded hash is not in the correct format"

ErrIncompatibleVersion == "argon2: incompatible version of argon2"

ErrMismatchedHashAndPassword ==
    "argon2: the hashed password does not match the hash of the given password"

\* the error crypto/rand.Read reports when the system source fails
ErrRandomSource == "crypto/rand: read failed"

ErrInvalidParams == "argon2: invalid parameters"

\* Params.Check: every field at or above its floor
Check(p) ==
    IF \/ U32Less(p.Memory, U32(minMemoryValue))
       \/ U32Less(p.Iterations, U32(minIteration))
       \/ p.Threads < minThreads
       \/ p.SaltLength < minSaltLength
       \/ p.KeyLength < minKeyLength
    THEN ErrInvalidParams
    ELSE NoError

\* ------------------------------------------------------------------------
\* The external collaborators: golang.org/x/crypto/argon2 and crypto/rand
\* ------------------------------------------------------------------------

\* argon2.Version
Version == 19

U32Bytes(u) == <<u[1] % Byte, u[1] \div Byte, u[2] % Byte, u[2] \div Byte>>

\* everything the primitive hashes, as one byte string
IDKeyInput(password, salt, time, memory, threads, keyLen) ==
    <<Len(password) % Byte>> \o password \o U32Bytes(time)
    \o U32Bytes(memory) \o <<threads>> \o U32Bytes(U32(keyLen))
    \o <<Len(salt) % Byte>> \o salt

\* byte i of a keyLen-byte digest of in: the input bytes at the positions
\* congruent to i, each weighted by an odd factor, so that changing any
\* one input byte changes the digest
RECURSIVE DigestByte(_, _, _, _)
DigestByte(in, j, keyLen, acc) ==
    IF j > Len(in) THEN acc % Byte
    ELSE DigestByte(in, j + keyLen, keyLen,
                    (acc + in[j] * (2 * ((j - 1) \div keyLen) + 1)) % Byte)

\* argon2.IDKey panics on these arguments ("number of rounds too small",
\* "parallelism degree too low", a zero-length BLAKE2b output)
IDKeyPanics(time, threads, keyLen) ==
    time = U32Zero \/ threads < 1 \/ keyLen < 1

\* argon2.IDKey: keyLen bytes, a deterministic function of all six inputs
IDKey(password, salt, time, memory, threads, keyLen) ==
    CHOOSE key \in
        {[i \in 1..keyLen |-> DigestByte(in, i, keyLen, i)] :
            in \in {IDKeyInput(password, salt, time, memory, threads, keyLen)}} :
        TRUE

\* the arguments of one IDKey call
IDKeyArgs(password, salt, time, memory, threads, keyLen) ==
    [password |-> password, salt |-> salt, time |-> time,
     memory |-> memory, threads |-> threads, keyLen |-> keyLen]

\* what the system random source does on one read: fail, or fill the
\* buffer with the bytes of one of NumSeeds streams
RandomOutcomes == [fail : {TRUE}, seed : {0}] \cup [fail : {FALSE}, seed : 1..NumSeeds]

RandByte(seed, i) == (seed * 89 + i * 37) % Byte

\* a comparison that looks at the lengths only
ConstantTimeCompareLengths(x, y) == IF Len(x) # Len(y) THEN 0 ELSE 1

\* subtle.ConstantTimeCompare(x, y): 1 when equal, 0 otherwise; slices of
\* different length compare 0
ConstantTimeCompare(x, y) ==
    IF Len(x) # Len(y) THEN 0
    ELSE IF \A i \in 1..Len(x) : x[i] = y[i] THEN 1 ELSE 0

\* ------------------------------------------------------------------------
\* The package's functions
\* ------------------------------------------------------------------------

\* GenerateRandomBytes returning the buffer along with the error
GenerateRandomBytesKeepsBuffer(n, rnd) ==
    IF rnd.fail THEN [b |-> [i \in 1..n |-> 0], err |-> ErrRandomSource]
    ELSE [b |-> [i \in 1..n |-> RandByte(rnd.seed, i)], err |-> NoError]

\* GenerateRandomBytes(n): [b, err]
GenerateRandomBytes(n, rnd) ==
    IF rnd.fail THEN [b |-> <<>>, err |-> ErrRandomSource]
    ELSE [b |-> [i \in 1..n |-> RandByte(rnd.seed, i)], err |-> NoError]

\* how a call ends: it returns to its caller, it panics, or log.Fatal
\* ends the process
Returned == "return"

Panicked == "panic"

Exited == "log.Fatal"

\* the token with the memory and iterations arguments exchanged
SprintfSwapped(p, b64Salt, b64Hash) ==
    Join(<< <<"a", "r", "g", "o", "n", "2", "i", "d">>,
            FormatNat(Version), FormatU32(p.Iterations), FormatU32(p.Memory),
            FormatNat(p.Threads), b64Salt, b64Hash >>)

\* the token GenerateFromPassword formats from p, the salt and the key
Sprintf(p, b64Salt, b64Hash) ==
    Join(<< <<"a", "r", "g", "o", "n", "2", "i", "d">>,
            FormatNat(Version), FormatU32(p.Memory), FormatU32(p.Iterations),
            FormatNat(p.Threads), b64Salt, b64Hash >>)

\* GenerateFromPassword(password, p) under random outcome rnd.
\* token and err are what the caller receives; randReq lists the lengths
\* asked of the random source, derived the IDKey calls made, salt and key
\* the locals of the call.
GenerateFromPassword(password, p, rnd) ==
    CHOOSE g \in
        {IF r.err # NoError
         THEN [exit |-> Returned, token |-> <<>>, err |-> r.err,
               randReq |-> <<p.SaltLength>>, derived |-> <<>>,
               salt |-> <<>>, key |-> <<>>]
         ELSE IF IDKeyPanics(p.Iterations, p.Threads, p.KeyLength)
         THEN [exit |-> Panicked, token |-> <<>>, err |-> NoError,
               randReq |-> <<p.SaltLength>>,
               derived |-> <<IDKeyArgs(password, r.b, p.Iterations, p.Memory,
                                       p.Threads, p.KeyLength)>>,
               salt |-> r.b, key |-> <<>>]
         ELSE CHOOSE h \in
                {[exit |-> Returned,
                  token |-> Sprintf(p, EncodeToString(r.b), EncodeToString(key)),
                  err |-> NoError,
                  randReq |-> <<p.SaltLength>>,
                  derived |-> <<IDKeyArgs(password, r.b, p.Iterations,
                                          p.Memory, p.Threads, p.KeyLength)>>,
                  salt |-> r.b, key |-> key] :
                    key \in {IDKey(password, r.b, p.Iterations, p.Memory,
                                   p.Threads, p.KeyLength)}} : TRUE :
            r \in {GenerateRandomBytes(p.SaltLength, rnd)}} : TRUE

\* a failed decodeHash: nil parameters, nil salt, nil hash and the error
DecodeFailure(e) == [p |-> <<>>, salt |-> <<>>, hash |-> <<>>, err |-> e]

\* decodeHash without the check of the key's decoding error
decodeFieldsUncheckedKey(vals) ==
    LET version     == Atoi(vals[2])
        memory      == Atoi(vals[3])
        iterations  == Atoi(vals[4])
        parallelism == Atoi(vals[5])
        salt        == DecodeString(vals[6])
        hash        == DecodeString(vals[7])
    IN  IF Len(vals) # 7 THEN DecodeFailure(ErrInvalidHash)
        ELSE IF version.err THEN DecodeFailure(ErrInvalidHash)
        ELSE IF version.val # I64OfU32(U32(Version))
        THEN DecodeFailure(ErrIncompatibleVersion)
        ELSE IF memory.err THEN DecodeFailure(ErrInvalidHash)
        ELSE IF iterations.err THEN DecodeFailure(ErrInvalidHash)
        ELSE IF parallelism.err THEN DecodeFailure(ErrInvalidHash)
        ELSE IF salt.err THEN DecodeFailure(ErrInvalidHash)
        ELSE [p |-> << MkParams(ToUint32(memory.val),
                                ToUint32(iterations.val),
                                ToUint8(parallelism.val),
                                Len(salt.bytes), Len(hash.bytes)) >>,
              salt |-> salt.bytes, hash |-> hash.bytes, err |-> NoError]

\* decodeHash with the version compared after the parameters are parsed
decodeFieldsVersionLast(vals) ==
    LET version     == Atoi(vals[2])
        memory      == Atoi(vals[3])
        iterations  == Atoi(vals[4])
        parallelism == Atoi(vals[5])
        salt        == DecodeString(vals[6])
        hash        == DecodeString(vals[7])
    IN  IF Len(vals) # 7 THEN DecodeFailure(ErrInvalidHash)
        ELSE IF version.err THEN DecodeFailure(ErrInvalidHash)
        ELSE IF memory.err THEN DecodeFailure(ErrInvalidHash)
        ELSE IF iterations.err THEN DecodeFailure(ErrInvalidHash)
        ELSE IF parallelism.err THEN DecodeFailure(ErrInvalidHash)
        ELSE IF version.val # I64OfU32(U32(Version))
        THEN DecodeFailure(ErrIncompatibleVersion)
        ELSE IF salt.err THEN DecodeFailure(ErrInvalidHash)
        ELSE IF hash.err THEN DecodeFailure(ErrInvalidHash)
        ELSE [p |-> << MkParams(ToUint32(memory.val),
                                ToUint32(iterations.val),
                                ToUint8(parallelism.val),
                                Len(salt.bytes), Len(hash.bytes)) >>,
              salt |-> salt.bytes, hash |-> hash.bytes, err |-> NoError]

\* decodeHash refusing a token whose first field is not "argon2id"
decodeFieldsTagChecked(vals) ==
    LET version     == Atoi(vals[2])
        memory      == Atoi(vals[3])
        iterations  == Atoi(vals[4])
        parallelism == Atoi(vals[5])
        salt        == DecodeString(vals[6])
        hash        == DecodeString(vals[7])
    IN  IF Len(vals) # 7 THEN DecodeFailure(ErrInvalidHash)
        ELSE IF vals[1] # <<"a", "r", "g", "o", "n", "2", "i", "d">>
        THEN DecodeFailure(ErrInvalidHash)
        ELSE IF version.err THEN DecodeFailure(ErrInvalidHash)
        ELSE IF version.val # I64OfU32(U32(Version))
        THEN DecodeFailure(ErrIncompatibleVersion)
        ELSE IF memory.err THEN DecodeFailure(ErrInvalidHash)
        ELSE IF iterations.err THEN DecodeFailure(ErrInvalidHash)
        ELSE IF parallelism.err THEN DecodeFailure(ErrInvalidHash)
        ELSE IF salt.err THEN DecodeFailure(ErrInvalidHash)
        ELSE IF hash.err THEN DecodeFailure(ErrInvalidHash)
        ELSE [p |-> << MkParams(ToUint32(memory.val),
                                ToUint32(iterations.val),
                                ToUint8(parallelism.val),
                                Len(salt.bytes), Len(hash.bytes)) >>,
              salt |-> salt.bytes, hash |-> hash.bytes, err |-> NoError]

\* decodeHash refusing a parallelism that does not fit a uint8
decodeFieldsRangeChecked(vals) ==
    LET version     == Atoi(vals[2])
        memory      == Atoi(vals[3])
        iterations  == Atoi(vals[4])
        parallelism == Atoi(vals[5])
        salt        == DecodeString(vals[6])
        hash        == DecodeString(vals[7])
    IN  IF Len(vals) # 7 THEN DecodeFailure(ErrInvalidHash)
        ELSE IF version.err THEN DecodeFailure(ErrInvalidHash)
        ELSE IF version.val # I64OfU32(U32(Version))
        THEN DecodeFailure(ErrIncompatibleVersion)
        ELSE IF memory.err THEN DecodeFailure(ErrInvalidHash)
        ELSE IF iterations.err THEN DecodeFailure(ErrInvalidHash)
        ELSE IF parallelism.err THEN DecodeFailure(ErrInvalidHash)
        ELSE IF parallelism.val # <<ToUint8(parallelism.val), 0, 0, 0>>
        THEN DecodeFailure(ErrInvalidHash)
        ELSE IF salt.err THEN DecodeFailure(ErrInvalidHash)
        ELSE IF hash.err THEN DecodeFailure(ErrInvalidHash)
        ELSE [p |-> << MkParams(ToUint32(memory.val),
                                ToUint32(iterations.val),
                                ToUint8(parallelism.val),
                                Len(salt.bytes), Len(hash.bytes)) >>,
              salt |-> salt.bytes, hash |-> hash.bytes, err |-> NoError]

\* decodeHash taking the key length from the salt
decodeFieldsKeyLengthOfSalt(vals) ==
    LET version     == Atoi(vals[2])
        memory      == Atoi(vals[3])
        iterations  == Atoi(vals[4])
        parallelism == Atoi(vals[5])
        salt        == DecodeString(vals[6])
        hash        == DecodeString(vals[7])
    IN  IF Len(vals) # 7 THEN DecodeFailure(ErrInvalidHash)
        ELSE IF version.err THEN DecodeFailure(ErrInvalidHash)
        ELSE IF version.val # I64OfU32(U32(Version))
        THEN DecodeFailure(ErrIncompatibleVersion)
        ELSE IF memory.err THEN DecodeFailure(ErrInvalidHash)
        ELSE IF iterations.err THEN DecodeFailure(ErrInvalidHash)
        ELSE IF parallelism.err THEN DecodeFailure(ErrInvalidHash)
        ELSE IF salt.err THEN DecodeFailure(ErrInvalidHash)
        ELSE IF hash.err THEN DecodeFailure(ErrInvalidHash)
        ELSE [p |-> << MkParams(ToUint32(memory.val),
                                ToUint32(iterations.val),
                                ToUint8(parallelism.val),
                                Len(salt.bytes), Len(salt.bytes)) >>,
              salt |-> salt.bytes, hash |-> hash.bytes, err |-> NoError]

\* decodeHash once encodedHash is split into vals
decodeFields(vals) ==
    LET version     == Atoi(vals[2])
        memory      == Atoi(vals[3])
        iterations  == Atoi(vals[4])
        parallelism == Atoi(vals[5])
        salt        == DecodeString(vals[6])
        hash        == DecodeString(vals[7])
    IN  IF Len(vals) # 7 THEN DecodeFailure(ErrInvalidHash)
        ELSE IF version.err THEN DecodeFailure(ErrInvalidHash)
        ELSE IF version.val # I64OfU32(U32(Version))
        THEN DecodeFailure(ErrIncompatibleVersion)
        ELSE IF memory.err THEN DecodeFailure(ErrInvalidHash)
        ELSE IF iterations.err THEN DecodeFailure(ErrInvalidHash)
        ELSE IF parallelism.err THEN DecodeFailure(ErrInvalidHash)
        ELSE IF salt.err THEN DecodeFailure(ErrInvalidHash)
        ELSE IF hash.err THEN DecodeFailure(ErrInvalidHash)
        ELSE [p |-> << MkParams(ToUint32(memory.val),
                                ToUint32(iterations.val),
                                ToUint8(parallelism.val),
                                Len(salt.bytes), Len(hash.bytes)) >>,
              salt |-> salt.bytes, hash |-> hash.bytes, err |-> NoError]

\* decodeHash(encodedHash): [p, salt, hash, err]; p is <<>> for a nil
\* pointer and <<params>> otherwise
decodeHash(encodedHash) ==
    CHOOSE d \in {decodeFields(vals) : vals \in {Split(encodedHash)}} : TRUE

\* CompareHashAndPassword(hash, password): exit tells whether the call
\* returned; err is the value returned (or handed to log.Fatal); derived
\* lists the IDKey calls made, hash and otherHash the two keys compared
CompareHashAndPassword(encodedHash, password) ==
    CHOOSE c \in
        {IF d.err # NoError
         THEN [exit |-> Exited, err |-> d.err, derived |-> <<>>,
               hash |-> <<>>, otherHash |-> <<>>]
         ELSE IF IDKeyPanics(d.p[1].Iterations, d.p[1].Threads,
                             d.p[1].KeyLength)
         THEN [exit |-> Panicked, err |-> NoError,
               derived |-> <<IDKeyArgs(password, d.salt, d.p[1].Iterations,
                                       d.p[1].Memory, d.p[1].Threads,
                                       d.p[1].KeyLength)>>,
               hash |-> d.hash, otherHash |-> <<>>]
         ELSE CHOOSE r \in
                {[exit |-> Returned,
                  err |-> IF ConstantTimeCompare(d.hash, otherHash) = 1
                          THEN NoError
                          ELSE ErrMismatchedHashAndPassword,
                  derived |-> <<IDKeyArgs(password, d.salt,
                                          d.p[1].Iterations, d.p[1].Memory,
                                          d.p[1].Threads, d.p[1].KeyLength)>>,
                  hash |-> d.hash, otherHash |-> otherHash] :
                    otherHash \in {IDKey(password, d.salt, d.p[1].Iterations,
                                         d.p[1].Memory, d.p[1].Threads,
                                         d.p[1].KeyLength)}} : TRUE :
            d \in {decodeHash(encodedHash)}} : TRUE

\* ------------------------------------------------------------------------
\* Inputs of the model
\* ------------------------------------------------------------------------

\* "qw", "q" and the empty password
Passwords == {<<113, 119>>, <<113>>, <<>>}

\* the parameter set sitting on every floor the specification names
FloorParams == MkParams(U32(8 * 1024), U32(1), 1, 8, 16)

\* the parameter sets callers pass: the defaults, the floors, and the
\* floors with one field moved below or above
ParamSets ==
    {DefaultParams, FloorParams}
    \cup {[FloorParams EXCEPT !.Memory = U32(m)] :
             m \in {0, 8 * 1024 - 1, 32 * 1024}}
    \cup {[FloorParams EXCEPT !.Iterations = U32(t)] : t \in {0, 2}}
    \cup {[FloorParams EXCEPT !.Threads = th] : th \in {0, 255}}
    \cup {[FloorParams EXCEPT !.SaltLength = n] : n \in {0, 7, 9}}
    \cup {[FloorParams EXCEPT !.KeyLength = n] : n \in {0, 15, 17}}

\* the parameter sets handed to Check: every combination of a few values
\* on either side of each floor
CheckParamSets ==
    {MkParams(U32(m), U32(t), th, sl, kl) :
        m \in {4 * 1024, 8 * 1024 - 1, 8 * 1024, 32 * 1024 - 1, 32 * 1024,
               64 * 1024},
        t \in {0, 1, 3}, th \in {0, 1, 2}, sl \in {7, 8, 16},
        kl \in {15, 16, 32}}

\* the lengths callers ask GenerateRandomBytes for
RandomLengths == {0, 1, 8, 16, 32, 128}

\* a genuine token: what GenerateFromPassword returns for "qw" and the
\* floor parameters, split into its fields
GenuineFields ==
    Split(GenerateFromPassword(<<113, 119>>, FloorParams,
                               [fail |-> FALSE, seed |-> 1]).token)

\* the field with its last character replaced by the next one of the
\* base64 alphabet, which changes the lowest bit it carries
BumpLast(f) ==
    IF Len(f) = 0 \/ ~IsB64(f[Len(f)]) THEN f \o <<"A">>
    ELSE [f EXCEPT ![Len(f)] = B64Char((B64Val(f[Len(f)]) + 1) % 64)]

\* the field with its first character replaced likewise
BumpFirst(f) ==
    IF Len(f) = 0 \/ ~IsB64(f[1]) THEN <<"A">> \o f
    ELSE [f EXCEPT ![1] = B64Char((B64Val(f[1]) + 1) % 64)]

\* texts a caller may find in a numeric field of a foreign token
NumericTexts ==
    { <<>>, <<"x">>, <<"0">>, <<"1">>, <<"-", "1">>, <<"1", "6">>,
      <<"+", "1", "9">>, <<"0", "1", "9">>, <<"1", "9", " ">>,
      <<"2", "5", "6">>, <<"2", "5", "8">>,
      <<"4", "2", "9", "4", "9", "6", "7", "2", "9", "7">>,
      <<"9", "2", "2", "3", "3", "7", "2", "0", "3", "6", "8", "5", "4",
        "7", "7", "5", "8", "0", "8">> }

\* texts a caller may find in a base64 field of a foreign token
PayloadTexts(f) ==
    { <<>>, <<"Q">>, <<"Q", "Q">>, <<"Q", "Q", "=", "=">>, <<"!", "!">>,
      BumpLast(f), BumpFirst(f), f \o <<"\n">>, f \o <<"=">>,
      SubSeq(f, 1, Len(f) - 1), SubSeq(f, 1, Len(f) - 2) }

\* the alternatives for field i of a token
FieldTexts(i) ==
    IF i = 1 THEN { <<>>, <<"a", "r", "g", "o", "n", "2", "i">> }
    ELSE IF i <= 5 THEN NumericTexts
    ELSE PayloadTexts(GenuineFields[i])

\* version texts that are not the supported version
ForeignVersions ==
    { <<>>, <<"x">>, <<"1", "6">>, <<"-", "1", "9">>,
      <<"9", "2", "2", "3", "3", "7", "2", "0", "3", "6", "8", "5", "4",
        "7", "7", "5", "8", "0", "8">> }

\* foreign tokens: the genuine token with one field replaced by any of the
\* texts, with a foreign version and another field replaced, with a
\* non-numeric parameter and a replaced payload, and texts that do not
\* have seven fields
CraftedTokens ==
    {Join(GenuineFields)}
    \cup {Join([GenuineFields EXCEPT ![i] = t]) :
             i \in 1..7, t \in UNION {FieldTexts(k) : k \in 1..7}}
    \cup UNION { {Join([GenuineFields EXCEPT ![2] = t, ![j] = u]) :
                     t \in ForeignVersions, u \in FieldTexts(j)} :
                 j \in 3..7 }
    \cup UNION { {Join([GenuineFields EXCEPT ![i] = <<"x">>, ![j] = u]) :
                     u \in FieldTexts(j)} :
                 i \in 3..5, j \in 6..7 }
    \cup { <<>>, <<"q", "w">>, <<"$">>,
           Join(SubSeq(GenuineFields, 1, 6)),
           Join(GenuineFields) \o <<"$">>,
           Join(GenuineFields \o <<GenuineFields[7]>>) }

\* what can happen to a stored token: the first or the last character of
\* field i changes (its lowest bit), or a zero is written before the field
TamperKinds == {"bump-last", "bump-first", "zero"}

Tampered(token, i, kind) ==
    LET fields == Split(token)
        f      == fields[i]
        g      == CASE kind = "bump-last"  -> BumpLast(f)
                    [] kind = "bump-first" -> BumpFirst(f)
                    [] kind = "zero"       -> <<"0">> \o f
    IN  Join([fields EXCEPT ![i] = g])

\* ------------------------------------------------------------------------
\* State
\* ------------------------------------------------------------------------

VARIABLES
    process,      \* "running", or how the process ended
    held,         \* the token the caller holds (its credential store)
    origin,       \* where held comes from, and what generated it
    fn,           \* the function called last
    argPassword,  \* the password passed to it
    argParams,    \* the Params passed to it, <<>> when none
    res,          \* what the call did
    heap,         \* the Params objects pointers lead to, by address
    calls         \* the call each goroutine is in: its arguments, its
                  \* position, its locals and its result

vars == <<process, held, origin, fn, argPassword, argParams, res, heap, calls>>

\* no read of the random source
NoRandom == [fail |-> FALSE, seed |-> 0]

\* b is the slice GenerateRandomBytes returned, rand what the random
\* source did during the call
NoResult ==
    [exit |-> Returned, err |-> NoError, token |-> <<>>, p |-> <<>>,
     salt |-> <<>>, hash |-> <<>>, otherHash |-> <<>>,
     randReq |-> <<>>, derived |-> <<>>, b |-> <<>>, rand |-> NoRandom]

NoOrigin ==
    [kind |-> "none", password |-> <<>>, params |-> <<>>,
     salt |-> <<>>, key |-> <<>>]

\* the process after a call that ended with exit
After(exit) == IF exit = Returned THEN "running" ELSE exit

\* the variables of the caller that makes one call after the other
callerVars == <<held, origin, fn, argPassword, argParams, res>>

\* the goroutines that call into the package side by side
Goroutines == 1..NumGoroutines

\* the address of the object the package variable DefaultParams points to
DefaultParamsAddr == <<"DefaultParams", 0>>

\* the address of a Params object the caller built
CallerParamsAddr == <<"caller", 0>>

\* the address of a Params object the caller built with Iterations 0
ZeroParamsAddr == <<"caller", 1>>

\* the address of the object that "p = &Params{}" allocates in the
\* decodeHash of goroutine t
NewParamsAddr(t) == <<"decodeHash", t>>

\* a nil *Params
NilAddr == <<"nil", 0>>

Addresses ==
    {DefaultParamsAddr, CallerParamsAddr, ZeroParamsAddr}
    \cup {NewParamsAddr(t) : t \in Goroutines}

\* the heap before any call: DefaultParams as the package initialises it,
\* the caller's objects, and nothing allocated by decodeHash yet
InitialHeap ==
    [a \in Addresses |->
        IF a = DefaultParamsAddr THEN <<DefaultParams>>
        ELSE IF a = CallerParamsAddr THEN <<FloorParams>>
        ELSE IF a = ZeroParamsAddr
        THEN <<[FloorParams EXCEPT !.Iterations = U32Zero]>>
        ELSE <<>>]

\* what a call hands back: how it ended and its return values
NoOutcome ==
    [exit |-> Returned, err |-> NoError, token |-> <<>>, p |-> <<>>,
     salt |-> <<>>, hash |-> <<>>]

\* the call f(...) of a goroutine before its first step: the arguments,
\* the outcome the random source will have, the position, the locals
\* salt, hash and key, and the outcome
NewCall(f, password, p, token, rnd) ==
    [fn |-> f, password |-> password, p |-> p, token |-> token,
     rnd |-> rnd, pc |-> "start", salt |-> <<>>, hash |-> <<>>,
     key |-> <<>>, out |-> NoOutcome]

\* a goroutine that makes no call
NoCall == [NewCall("none", <<>>, NilAddr, <<>>, NoRandom) EXCEPT !.pc = "done"]

\* the tokens goroutines verify and decode: a genuine one, one that is no
\* token, and the genuine one with the iterations field 0
ConcurrentTokens ==
    { Join(GenuineFields), <<"q", "w">>,
      Join([GenuineFields EXCEPT ![4] = <<"0">>]) }

\* the calls a goroutine may be about to make
ConcurrentCalls ==
    {NewCall("GenerateFromPassword", <<113, 119>>, a, <<>>, rnd) :
        a \in {DefaultParamsAddr, CallerParamsAddr, ZeroParamsAddr},
        rnd \in RandomOutcomes}
    \cup {NewCall("CompareHashAndPassword", pw, NilAddr, tok, NoRandom) :
             pw \in {<<113, 119>>, <<113>>}, tok \in ConcurrentTokens}
    \cup {NewCall("decodeHash", <<>>, NilAddr, tok, NoRandom) :
             tok \in ConcurrentTokens}
    \cup {NewCall("Check", <<>>, a, <<>>, NoRandom) :
             a \in {DefaultParamsAddr, CallerParamsAddr, ZeroParamsAddr}}

\* the caller's credential store is empty, or holds a token that came
\* from elsewhere
Init ==
    /\ process = "running"
    /\ \/ held = <<>> /\ origin = NoOrigin
       \/ held \in CraftedTokens /\ origin = [NoOrigin EXCEPT !.kind = "crafted"]
    /\ fn = "none"
    /\ argPassword = <<>>
    /\ argParams = <<>>
    /\ res = NoResult
    /\ heap = InitialHeap
    /\ calls = [t \in Goroutines |-> NoCall]

\* the caller holds a parameter set to validate
InitCheck ==
    /\ process = "running"
    /\ held = <<>>
    /\ origin = NoOrigin
    /\ fn = "none"
    /\ argPassword = <<>>
    /\ argParams \in {<<p>> : p \in CheckParamSets}
    /\ res = NoResult
    /\ heap = InitialHeap
    /\ calls = [t \in Goroutines |-> NoCall]

\* every goroutine is about to make one call
InitConcurrent ==
    /\ process = "running"
    /\ held = <<>>
    /\ origin = NoOrigin
    /\ fn = "none"
    /\ argPassword = <<>>
    /\ argParams = <<>>
    /\ res = NoResult
    /\ heap = InitialHeap
    /\ calls \in [Goroutines -> ConcurrentCalls]

\* the caller generates the token of a credential and stores it
CallGenerateFromPassword ==
    /\ process = "running"
    /\ origin.kind = "none"
    /\ \E password \in Passwords, p \in ParamSets, rnd \in RandomOutcomes :
         \E g \in {GenerateFromPassword(password, p, rnd)} :
             /\ fn' = "GenerateFromPassword"
             /\ argPassword' = password
             /\ argParams' = <<p>>
             /\ res' = [NoResult EXCEPT !.exit = g.exit, !.err = g.err,
                           !.token = g.token, !.randReq = g.randReq,
                           !.derived = g.derived, !.rand = rnd]
             /\ process' = After(g.exit)
             /\ IF g.exit = Returned /\ g.err = NoError
                THEN /\ held' = g.token
                     /\ origin' = [kind |-> "generated",
                                   password |-> password, params |-> <<p>>,
                                   salt |-> g.salt, key |-> g.key]
                ELSE UNCHANGED <<held, origin>>
    /\ UNCHANGED <<heap, calls>>

\* the caller, holding no token yet, asks for n random bytes
CallGenerateRandomBytes ==
    /\ process = "running"
    /\ origin.kind = "none"
    /\ \E n \in RandomLengths, rnd \in RandomOutcomes :
         \E r \in {GenerateRandomBytes(n, rnd)} :
             /\ fn' = "GenerateRandomBytes"
             /\ argPassword' = <<>>
             /\ argParams' = <<>>
             /\ res' = [NoResult EXCEPT !.err = r.err, !.b = r.b,
                           !.randReq = <<n>>, !.rand = rnd]
    /\ UNCHANGED <<process, held, origin, heap, calls>>

\* the caller verifies a password against the token it holds
CallCompareHashAndPassword ==
    /\ process = "running"
    /\ origin.kind # "none"
    /\ \E password \in Passwords :
         \E c \in {CompareHashAndPassword(held, password)} :
             /\ fn' = "CompareHashAndPassword"
             /\ argPassword' = password
             /\ argParams' = <<>>
             /\ res' = [NoResult EXCEPT !.exit = c.exit, !.err = c.err,
                           !.hash = c.hash, !.otherHash = c.otherHash,
                           !.derived = c.derived]
             /\ process' = After(c.exit)
             /\ UNCHANGED <<held, origin>>
    /\ UNCHANGED <<heap, calls>>

\* the token the caller holds is decoded
CalldecodeHash ==
    /\ process = "running"
    /\ origin.kind # "none"
    /\ \E d \in {decodeHash(held)} :
           /\ fn' = "decodeHash"
           /\ argPassword' = <<>>
           /\ argParams' = <<>>
           /\ res' = [NoResult EXCEPT !.err = d.err, !.p = d.p,
                         !.salt = d.salt, !.hash = d.hash]
           /\ UNCHANGED <<process, held, origin>>
    /\ UNCHANGED <<heap, calls>>

\* the parameter set the caller holds is validated
CallCheck ==
    /\ process = "running"
    /\ argParams # <<>>
    /\ fn \in {"none", "Check"}
    /\ fn' = "Check"
    /\ res' = [NoResult EXCEPT !.err = Check(argParams[1])]
    /\ UNCHANGED <<process, held, origin, argPassword, argParams>>
    /\ UNCHANGED <<heap, calls>>

\* a generated token is altered while it is stored
Tamper ==
    /\ process = "running"
    /\ origin.kind = "generated"
    /\ \E i \in 3..7, kind \in TamperKinds :
         /\ held' = Tampered(held, i, kind)
         /\ origin' = [origin EXCEPT !.kind = "tampered"]
         /\ fn' = "none"
         /\ argPassword' = <<>>
         /\ argParams' = <<>>
         /\ res' = NoResult
         /\ UNCHANGED process
    /\ UNCHANGED <<heap, calls>>

\* goroutine t's call ends with outcome out
Finished(t, out) == [calls EXCEPT ![t].pc = "done", ![t].out = out]

\* GenerateFromPassword in goroutine t reads p.SaltLength and asks
\* GenerateRandomBytes for the salt
GenerateReadsSalt ==
    /\ process = "running"
    /\ \E t \in Goroutines :
         /\ calls[t].fn = "GenerateFromPassword"
         /\ calls[t].pc = "start"
         /\ \E r \in {GenerateRandomBytes(heap[calls[t].p][1].SaltLength,
                                          calls[t].rnd)} :
                calls' = IF r.err # NoError
                         THEN Finished(t, [NoOutcome EXCEPT !.err = r.err])
                         ELSE [calls EXCEPT ![t].pc = "derive",
                                            ![t].salt = r.b]
    /\ UNCHANGED <<process, heap, callerVars>>

\* GenerateFromPassword in goroutine t reads p.Iterations, p.Memory,
\* p.Threads and p.KeyLength and calls argon2.IDKey; a panic of IDKey is
\* not recovered and ends the process
GenerateDerives ==
    /\ process = "running"
    /\ \E t \in Goroutines :
         /\ calls[t].fn = "GenerateFromPassword"
         /\ calls[t].pc = "derive"
         /\ \E p \in {heap[calls[t].p][1]} :
                IF IDKeyPanics(p.Iterations, p.Threads, p.KeyLength)
                THEN /\ calls' = Finished(t, [NoOutcome EXCEPT !.exit = Panicked])
                     /\ process' = Panicked
                ELSE /\ calls' = [calls EXCEPT
                                    ![t].pc = "format",
                                    ![t].key = IDKey(calls[t].password,
                                                     calls[t].salt, p.Iterations,
                                                     p.Memory, p.Threads,
                                                     p.KeyLength)]
                     /\ UNCHANGED process
    /\ UNCHANGED <<heap, callerVars>>

\* GenerateFromPassword in goroutine t encodes the salt and the key, reads
\* p.Memory, p.Iterations and p.Threads for the token and returns it
GenerateFormats ==
    /\ process = "running"
    /\ \E t \in Goroutines :
         /\ calls[t].fn = "GenerateFromPassword"
         /\ calls[t].pc = "format"
         /\ calls' = Finished(t,
                [NoOutcome EXCEPT
                    !.token = Sprintf(heap[calls[t].p][1],
                                      EncodeToString(calls[t].salt),
                                      EncodeToString(calls[t].key))])
    /\ UNCHANGED <<process, heap, callerVars>>

\* CompareHashAndPassword in goroutine t decodes the token: decodeHash
\* fills a Params object of its own, and on its error log.Fatal ends the
\* process
CompareDecodes ==
    /\ process = "running"
    /\ \E t \in Goroutines :
         /\ calls[t].fn = "CompareHashAndPassword"
         /\ calls[t].pc = "start"
         /\ \E d \in {decodeHash(calls[t].token)} :
                IF d.err # NoError
                THEN /\ calls' = Finished(t, [NoOutcome EXCEPT !.exit = Exited,
                                                               !.err = d.err])
                     /\ process' = Exited
                     /\ UNCHANGED heap
                ELSE /\ calls' = [calls EXCEPT ![t].pc = "derive",
                                                ![t].p = NewParamsAddr(t),
                                                ![t].salt = d.salt,
                                                ![t].hash = d.hash]
                     /\ heap' = [heap EXCEPT ![NewParamsAddr(t)] = d.p]
                     /\ UNCHANGED process
    /\ UNCHANGED callerVars

\* CompareHashAndPassword in goroutine t derives otherHash from the
\* password, the decoded salt and the decoded parameters
CompareDerives ==
    /\ process = "running"
    /\ \E t \in Goroutines :
         /\ calls[t].fn = "CompareHashAndPassword"
         /\ calls[t].pc = "derive"
         /\ \E p \in {heap[calls[t].p][1]} :
                IF IDKeyPanics(p.Iterations, p.Threads, p.KeyLength)
                THEN /\ calls' = Finished(t, [NoOutcome EXCEPT !.exit = Panicked])
                     /\ process' = Panicked
                ELSE /\ calls' = [calls EXCEPT
                                    ![t].pc = "compare",
                                    ![t].key = IDKey(calls[t].password,
                                                     calls[t].salt, p.Iterations,
                                                     p.Memory, p.Threads,
                                                     p.KeyLength)]
                     /\ UNCHANGED process
    /\ UNCHANGED <<heap, callerVars>>

\* CompareHashAndPassword in goroutine t compares the two keys and returns
CompareCompares ==
    /\ process = "running"
    /\ \E t \in Goroutines :
         /\ calls[t].fn = "CompareHashAndPassword"
         /\ calls[t].pc = "compare"
         /\ calls' = Finished(t,
                [NoOutcome EXCEPT
                    !.err = IF ConstantTimeCompare(calls[t].hash,
                                                   calls[t].key) = 1
                            THEN NoError
                            ELSE ErrMismatchedHashAndPassword])
    /\ UNCHANGED <<process, heap, callerVars>>

\* decodeHash in goroutine t: it returns the pointer to the Params object
\* it allocated, the salt and the key, or its error
DecodeHashRuns ==
    /\ process = "running"
    /\ \E t \in Goroutines :
         /\ calls[t].fn = "decodeHash"
         /\ calls[t].pc = "start"
         /\ \E d \in {decodeHash(calls[t].token)} :
                /\ calls' = Finished(t, [NoOutcome EXCEPT !.err = d.err,
                                            !.p = d.p, !.salt = d.salt,
                                            !.hash = d.hash])
                /\ heap' = IF d.err = NoError
                           THEN [heap EXCEPT ![NewParamsAddr(t)] = d.p]
                           ELSE heap
    /\ UNCHANGED <<process, callerVars>>

\* p.Check() in goroutine t
CheckRuns ==
    /\ process = "running"
    /\ \E t \in Goroutines :
         /\ calls[t].fn = "Check"
         /\ calls[t].pc = "start"
         /\ calls' = Finished(t, [NoOutcome EXCEPT
                                    !.err = Check(heap[calls[t].p][1])])
    /\ UNCHANGED <<process, heap, callerVars>>

Next ==
    \/ CallGenerateFromPassword
    \/ CallGenerateRandomBytes
    \/ CallCompareHashAndPassword
    \/ CalldecodeHash
    \/ Tamper

Spec == Init /\ [][Next]_vars

NextCheck == CallCheck

SpecCheck == InitCheck /\ [][NextCheck]_vars

\* the steps of the calls the goroutines make, in any order
NextConcurrent ==
    \/ GenerateReadsSalt
    \/ GenerateDerives
    \/ GenerateFormats
    \/ CompareDecodes
    \/ CompareDerives
    \/ CompareCompares
    \/ DecodeHashRuns
    \/ CheckRuns

SpecConcurrent == InitConcurrent /\ [][NextConcurrent]_vars

\* ------------------------------------------------------------------------
\* Vocabulary of the properties
\* ------------------------------------------------------------------------

\* the five floors the specification states for a ParameterSet
SatisfiesFloors(p) ==
    /\ ~U32Less(p.Memory, U32(8192))
    /\ ~U32Less(p.Iterations, U32(1))
    /\ p.Threads >= 1
    /\ p.SaltLength >= 8
    /\ p.KeyLength >= 16

\* the number of "$"-separated fields of a text
FieldCount(t) == Cardinality({i \in 1..Len(t) : t[i] = Sep}) + 1

\* an optional sign followed by one or more decimal digits
IsIntegerText(s) ==
    LET body == IF Len(s) > 0 /\ s[1] \in {"+", "-"} THEN Tail(s) ELSE s
    IN  /\ Len(body) > 0
        /\ \A i \in 1..Len(body) : body[i] \in {DigitChars[k] : k \in 1..10}

\* the text is an integer the machine can hold
ParsesAsInteger(s) == IsIntegerText(s) /\ ~Atoi(s).err

\* unpadded base64 as RawStdEncoding reads it: line breaks aside, only
\* characters of the alphabet, and no lone character in the last group
ValidRawBase64(s) ==
    LET t == SelectSeq(s, LAMBDA c : c \notin {"\n", "\r"})
    IN  /\ \A i \in 1..Len(t) : t[i] \in {B64Chars[k] : k \in 1..64}
        /\ Len(t) % 4 # 1

\* the last call was CompareHashAndPassword on a token exactly as
\* GenerateFromPassword returned it for parameters above the floors
ComparedGenerated ==
    /\ fn = "CompareHashAndPassword"
    /\ origin.kind = "generated"
    /\ SatisfiesFloors(origin.params[1])

\* a failed decodeHash hands back nothing but ErrInvalidHash
RejectedAsInvalid ==
    /\ res.err = ErrInvalidHash
    /\ res.p = <<>>
    /\ res.salt = <<>>
    /\ res.hash = <<>>

\* the version field of the held seven-field token is the supported one
SupportedVersion ==
    /\ ParsesAsInteger(Split(held)[2])
    /\ Atoi(Split(held)[2]).val = <<19, 0, 0, 0>>

\* ------------------------------------------------------------------------
\* Properties
\* ------------------------------------------------------------------------

\* C1: round trip. Verifying the password a token was generated from,
\* with parameters that satisfy all five floors, returns nil.
RoundTripSucceeds ==
    (ComparedGenerated /\ argPassword = origin.password)
        => (res.exit = Returned /\ res.err = NoError)

RoundTripWitness ==
    /\ ComparedGenerated
    /\ argPassword = origin.password
    /\ res.err = NoError
    /\ process = "running"

\* C2: negative round trip. Verifying any other password against a
\* generated token returns ErrMismatchedHashAndPassword.
WrongPasswordMismatches ==
    (ComparedGenerated /\ argPassword # origin.password)
        => (res.exit = Returned /\ res.err = ErrMismatchedHashAndPassword)

WrongPasswordWitness ==
    /\ ComparedGenerated
    /\ argPassword # origin.password
    /\ res.err = ErrMismatchedHashAndPassword
    /\ process = "running"

\* C3: CompareHashAndPassword always returns to its caller, and when
\* decodeHash fails it returns decodeHash's error.
DecodeFailureReturned ==
    fn = "CompareHashAndPassword"
        => /\ res.exit = Returned
           /\ decodeHash(held).err # NoError => res.err = decodeHash(held).err

\* C4: GenerateFromPassword with a ParameterSet below a floor returns
\* InvalidParameters and no token, without asking for random bytes and
\* without calling the derivation primitive.
InvalidParamsRejected ==
    (fn = "GenerateFromPassword" /\ ~SatisfiesFloors(argParams[1]))
        => /\ res.exit = Returned
           /\ res.err = ErrInvalidParams
           /\ res.token = <<>>
           /\ res.randReq = <<>>
           /\ res.derived = <<>>

\* C5: Check succeeds exactly for the ParameterSets with memoryCost >= 8192,
\* iterations >= 1, parallelism >= 1, saltLength >= 8 and keyLength >= 16.
CheckMatchesFloors ==
    fn = "Check" => (res.err = NoError <=> SatisfiesFloors(argParams[1]))

\* C6: decodeHash fails with ErrInvalidHash and returns nothing when the
\* token does not have 7 fields, or has 7 fields and the supported version
\* but a memory, iterations or parallelism field that is not an integer,
\* or a salt or key field that is not unpadded base64.
MalformedTokenRejected ==
    fn = "decodeHash"
        => /\ FieldCount(held) # 7 => RejectedAsInvalid
           /\ (/\ FieldCount(held) = 7
               /\ SupportedVersion
               /\ \E i \in 3..5 : ~ParsesAsInteger(Split(held)[i]))
                  => RejectedAsInvalid
           /\ (/\ FieldCount(held) = 7
               /\ SupportedVersion
               /\ \E i \in 6..7 : ~ValidRawBase64(Split(held)[i]))
                  => RejectedAsInvalid

MalformedTokenWitness ==
    /\ fn = "decodeHash"
    /\ FieldCount(held) = 7
    /\ SupportedVersion
    /\ \A i \in 3..5 : ParsesAsInteger(Split(held)[i])
    /\ ValidRawBase64(Split(held)[6])
    /\ ~ValidRawBase64(Split(held)[7])
    /\ RejectedAsInvalid

\* C7: on a 7-field token decodeHash decides on the version first: a
\* version that is not an integer gives ErrInvalidHash and an integer
\* other than 19 gives ErrIncompatibleVersion, whatever the other fields.
VersionDecidedFirst ==
    (fn = "decodeHash" /\ FieldCount(held) = 7)
        => /\ ~ParsesAsInteger(Split(held)[2]) => res.err = ErrInvalidHash
           /\ (/\ ParsesAsInteger(Split(held)[2])
               /\ Atoi(Split(held)[2]).val # <<19, 0, 0, 0>>)
                  => res.err = ErrIncompatibleVersion

VersionDecidedFirstWitness ==
    /\ fn = "decodeHash"
    /\ FieldCount(held) = 7
    /\ ParsesAsInteger(Split(held)[2])
    /\ Atoi(Split(held)[2]).val # <<19, 0, 0, 0>>
    /\ \E i \in 3..5 : ~ParsesAsInteger(Split(held)[i])
    /\ res.err = ErrIncompatibleVersion

\* C8: on a token that decodeHash accepts, CompareHashAndPassword returns
\* nil when the stored key equals the key derived from the password and
\* the decoded salt and parameters, and ErrMismatchedHashAndPassword
\* otherwise.
CompareDecidedByKeys ==
    (fn = "CompareHashAndPassword" /\ decodeHash(held).err = NoError)
        => LET d == decodeHash(held)
               p == d.p[1]
               k == IDKey(argPassword, d.salt, p.Iterations, p.Memory,
                          p.Threads, p.KeyLength)
           IN  /\ res.exit = Returned
               /\ res.err = IF d.hash = k THEN NoError
                            ELSE ErrMismatchedHashAndPassword

\* C9: what decodeHash returns on success is what the token says: memory,
\* iterations and parallelism are the integers of fields 3, 4 and 5, salt
\* and key the decoded fields 6 and 7, the two lengths their lengths; on
\* a generated token these are the parameters, salt and key of generation.
DecodedAsWritten ==
    (fn = "decodeHash" /\ res.err = NoError)
        => LET vals == Split(held)
               p    == res.p[1]
           IN  /\ Atoi(vals[3]).val = I64OfU32(p.Memory)
               /\ Atoi(vals[4]).val = I64OfU32(p.Iterations)
               /\ Atoi(vals[5]).val = <<p.Threads, 0, 0, 0>>
               /\ res.salt = DecodeString(vals[6]).bytes
               /\ res.hash = DecodeString(vals[7]).bytes
               /\ p.SaltLength = Len(res.salt)
               /\ p.KeyLength = Len(res.hash)
               /\ origin.kind = "generated"
                    => /\ res.p = origin.params
                       /\ res.salt = origin.salt
                       /\ res.hash = origin.key

\* the text is the decimal numeral of the uint32 u: digits only, no
\* leading zero, and the value of u
IsDecimalOf(s, u) ==
    /\ Len(s) > 0
    /\ \A i \in 1..Len(s) : s[i] \in {DigitChars[k] : k \in 1..10}
    /\ Len(s) > 1 => s[1] # "0"
    /\ Atoi(s).val = I64OfU32(u)

\* C10: a token GenerateFromPassword returns has exactly 7 fields:
\* "argon2id", 19, the memory, iterations and parallelism passed in, the
\* unpadded base64 of a salt of saltLength bytes and of the key derived
\* from the password, that salt and the parameters.
TokenLayout ==
    (fn = "GenerateFromPassword" /\ res.exit = Returned /\ res.err = NoError)
        => LET f == Split(res.token)
               p == argParams[1]
           IN  /\ FieldCount(res.token) = 7
               /\ f[1] = <<"a", "r", "g", "o", "n", "2", "i", "d">>
               /\ f[2] = <<"1", "9">>
               /\ IsDecimalOf(f[3], p.Memory)
               /\ IsDecimalOf(f[4], p.Iterations)
               /\ IsDecimalOf(f[5], U32(p.Threads))
               /\ Len(origin.salt) = p.SaltLength
               /\ ValidRawBase64(f[6])
               /\ "\n" \notin {f[6][i] : i \in 1..Len(f[6])}
               /\ DecodeString(f[6]).bytes = origin.salt
               /\ Len(f[6]) = (p.SaltLength * 8 + 5) \div 6
               /\ origin.key = IDKey(argPassword, origin.salt, p.Iterations,
                                     p.Memory, p.Threads, p.KeyLength)
               /\ ValidRawBase64(f[7])
               /\ DecodeString(f[7]).bytes = origin.key
               /\ Len(f[7]) = (p.KeyLength * 8 + 5) \div 6

TokenLayoutWitness ==
    /\ fn = "GenerateFromPassword"
    /\ res.exit = Returned
    /\ res.err = NoError
    /\ FieldCount(res.token) = 7
    /\ argParams[1].SaltLength = 9
    /\ process = "running"

\* what the call c returns when no other call runs: the package's function
\* applied to its arguments and the heap as it was before any call
Alone(c) ==
    CASE c.fn = "GenerateFromPassword" ->
            CHOOSE o \in
                {[NoOutcome EXCEPT !.exit = g.exit, !.err = g.err,
                                   !.token = g.token] :
                    g \in {GenerateFromPassword(c.password,
                                                InitialHeap[c.p][1], c.rnd)}} :
                TRUE
      [] c.fn = "CompareHashAndPassword" ->
            CHOOSE o \in
                {[NoOutcome EXCEPT !.exit = r.exit, !.err = r.err] :
                    r \in {CompareHashAndPassword(c.token, c.password)}} :
                TRUE
      [] c.fn = "decodeHash" ->
            CHOOSE o \in
                {[NoOutcome EXCEPT !.err = d.err, !.p = d.p, !.salt = d.salt,
                                   !.hash = d.hash] :
                    d \in {decodeHash(c.token)}} :
                TRUE
      [] c.fn = "Check" ->
            [NoOutcome EXCEPT !.err = Check(InitialHeap[c.p][1])]

\* the call of goroutine t as it was made: CompareHashAndPassword
\* replaces its local p, the others keep the argument
AsCalled(t) ==
    IF calls[t].fn = "CompareHashAndPassword"
    THEN [calls[t] EXCEPT !.p = NilAddr]
    ELSE calls[t]

\* the Params objects callers can reach are as they were before the calls
ParamsUntouched ==
    /\ heap[DefaultParamsAddr] = <<DefaultParams>>
    /\ \A a \in {CallerParamsAddr, ZeroParamsAddr} : heap[a] = InitialHeap[a]

\* a call that is over ended as it ends alone
ResultsAsAlone ==
    \A t \in Goroutines :
        calls[t].pc = "done" => calls[t].out = Alone(AsCalled(t))

\* a call that has begun and returns when run alone is not cut off by the
\* end of the process
NoCallCutOff ==
    \A t \in Goroutines :
        (/\ calls[t].pc \notin {"start", "done"}
         /\ Alone(AsCalled(t)).exit = Returned)
            => process = "running"

\* C11: no call writes state another call reads. DefaultParams and the
\* ParameterSet passed in are the same before and after every call, and
\* in every interleaving of concurrent calls each call returns what it
\* returns when run alone with the same random bytes.
CallsIsolated ==
    /\ ParamsUntouched
    /\ ResultsAsAlone
    /\ NoCallCutOff

\* C12: GenerateRandomBytes(n) returns exactly n bytes and no error when
\* the random source succeeds, and the source's error and no bytes when it
\* fails; GenerateFromPassword then returns that error and no token and
\* does not call the derivation primitive.
RandomBytesContract ==
    /\ fn = "GenerateRandomBytes"
          => /\ res.exit = Returned
             /\ ~res.rand.fail
                  => (res.err = NoError /\ Len(res.b) = res.randReq[1])
             /\ res.rand.fail
                  => (res.err = ErrRandomSource /\ res.b = <<>>)
    /\ (fn = "GenerateFromPassword" /\ res.rand.fail)
          => /\ res.exit = Returned
             /\ res.err = ErrRandomSource
             /\ res.token = <<>>
             /\ res.derived = <<>>

RandomBytesWitness ==
    /\ fn = "GenerateRandomBytes"
    /\ ~res.rand.fail
    /\ res.randReq = <<16>>
    /\ Len(res.b) = 16
    /\ res.err = NoError

\* C13: whenever CompareHashAndPassword reaches the comparison, the key
\* length it asked the primitive for is the length of the stored key, the
\* derived key has that length, and the outcome is nil exactly when the
\* two keys agree byte for byte.
KeysSameLength ==
    (fn = "CompareHashAndPassword" /\ res.exit = Returned)
        => /\ Len(res.derived) = 1
           /\ res.derived[1].keyLen = Len(res.hash)
           /\ Len(res.otherHash) = Len(res.hash)
           /\ res.err = NoError
                <=> \A i \in 1..Len(res.hash) : res.hash[i] = res.otherHash[i]
           /\ res.err \in {NoError, ErrMismatchedHashAndPassword}

KeysSameLengthWitness ==
    /\ fn = "CompareHashAndPassword"
    /\ res.exit = Returned
    /\ Len(res.hash) = 15
    /\ Len(res.otherHash) = 15
    /\ res.err = ErrMismatchedHashAndPassword

\* C14: CompareHashAndPassword calls the derivation primitive only with
\* iterations >= 1, parallelism >= 1 and key length >= 1; for a token that
\* decodes to iterations 0, parallelism 0 or an empty key it returns an
\* error and makes no call.
PrimitiveArgumentsValid ==
    fn = "CompareHashAndPassword"
        => /\ \A i \in 1..Len(res.derived) :
                 /\ res.derived[i].time # U32Zero
                 /\ res.derived[i].threads >= 1
                 /\ res.derived[i].keyLen >= 1
           /\ \A d \in {decodeHash(held)} :
                 (/\ d.err = NoError
                  /\ \/ d.p[1].Iterations = U32Zero
                     \/ d.p[1].Threads = 0
                     \/ d.p[1].KeyLength = 0)
                    => /\ res.exit = Returned
                       /\ res.err # NoError
                       /\ res.derived = <<>>

\* the digits of an integer text, its sign left out
DigitsOf(s) == IF Len(s) > 0 /\ s[1] \in {"+", "-"} THEN Tail(s) ELSE s

\* the number that the first i of the decimal digits ds denote, modulo 2^8
RECURSIVE DigitsMod8(_, _)
DigitsMod8(ds, i) ==
    IF i = 0 THEN 0
    ELSE (DigitsMod8(ds, i - 1) * 10 + DigitVal(ds[i])) % 2^8

\* the same modulo 2^32, as <<low half, high half>>
RECURSIVE DigitsMod32(_, _)
DigitsMod32(ds, i) ==
    IF i = 0 THEN <<0, 0>>
    ELSE CHOOSE u \in
            {<<(m[1] * 10 + DigitVal(ds[i])) % 2^16,
               (m[2] * 10 + (m[1] * 10 + DigitVal(ds[i])) \div 2^16) % 2^16>> :
                m \in {DigitsMod32(ds, i - 1)}} : TRUE

\* the integer the text s denotes, reduced modulo 2^8
TextMod8(s) ==
    LET m == DigitsMod8(DigitsOf(s), Len(DigitsOf(s)))
    IN  IF s[1] = "-" THEN (2^8 - m) % 2^8 ELSE m

\* the integer the text s denotes, reduced modulo 2^32
TextMod32(s) ==
    LET m == DigitsMod32(DigitsOf(s), Len(DigitsOf(s)))
    IN  IF s[1] # "-" THEN m
        ELSE IF m[1] = 0 THEN <<0, (2^16 - m[2]) % 2^16>>
        ELSE <<2^16 - m[1], 2^16 - 1 - m[2]>>

\* the held token has 7 fields, the supported version, integers in the
\* three parameter fields and unpadded base64 in the salt and key fields
WellFormedToken ==
    /\ FieldCount(held) = 7
    /\ SupportedVersion
    /\ \A i \in 3..5 : ParsesAsInteger(Split(held)[i])
    /\ \A i \in 6..7 : ValidRawBase64(Split(held)[i])

\* C15: decodeHash accepts every memory, iterations and parallelism field
\* that parses as a machine integer, negative and oversized ones included,
\* and stores it modulo 2^32 (memory, iterations) or 2^8 (parallelism)
\* without error: parallelism 258 decodes to 2 and 256 to 0.
ReducedWithoutError ==
    (fn = "decodeHash" /\ WellFormedToken)
        => LET f == Split(held)
           IN  /\ res.err = NoError
               /\ res.p[1].Memory = TextMod32(f[3])
               /\ res.p[1].Iterations = TextMod32(f[4])
               /\ res.p[1].Threads = TextMod8(f[5])
               /\ f[5] = <<"2", "5", "8">> => res.p[1].Threads = 2
               /\ f[5] = <<"2", "5", "6">> => res.p[1].Threads = 0

\* the field 258 was decoded, to the ParameterSet of the token that says 2
ReducedWithoutErrorWitness ==
    /\ fn = "decodeHash"
    /\ WellFormedToken
    /\ Split(held)[5] = <<"2", "5", "8">>
    /\ res.err = NoError
    /\ res.p[1].Threads = 2
    /\ res.p = decodeHash(Join([Split(held) EXCEPT ![5] = <<"2">>])).p

\* texts for the first field of a token: the tag of Argon2id, the tags of
\* other algorithms, and nothing
AlgorithmTags ==
    { <<"a", "r", "g", "o", "n", "2", "i", "d">>,
      <<"a", "r", "g", "o", "n", "2", "i">>,
      <<"b", "c", "r", "y", "p", "t">>,
      <<>> }

\* the token with its first field replaced by tag
Retagged(token, tag) == Join([Split(token) EXCEPT ![1] = tag])

\* C16: decodeHash never looks at the first field. Two 7-field tokens
\* that differ in field 1 only give the same decodeHash result, and
\* CompareHashAndPassword ends the same way for both with any password.
TagIgnored ==
    FieldCount(held) = 7
        => /\ fn = "decodeHash"
                => \A tag \in AlgorithmTags :
                      \A d \in {decodeHash(Retagged(held, tag))} :
                          /\ res.err = d.err
                          /\ res.p = d.p
                          /\ res.salt = d.salt
                          /\ res.hash = d.hash
           /\ fn = "CompareHashAndPassword"
                => \A tag \in AlgorithmTags :
                      \A c \in {CompareHashAndPassword(Retagged(held, tag),
                                                        argPassword)} :
                          /\ res.exit = c.exit
                          /\ res.err = c.err

\* a token tagged otherwise than argon2id was verified
TagIgnoredWitness ==
    /\ fn = "CompareHashAndPassword"
    /\ FieldCount(held) = 7
    /\ Split(held)[1] = <<"a", "r", "g", "o", "n", "2", "i">>
    /\ res.exit = Returned
    /\ res.err = NoError

====
